---- MODULE Spec2Model ----
(***************************************************************************)
(* Model of ros/src/tl_detector/tl_detector.py: the TLDetector node.       *)
(*                                                                         *)
(* The node caches the latest pose, path and light list delivered by its   *)
(* subscriptions and, on every camera frame (image_cb), selects the        *)
(* nearest stop line ahead, classifies it when it is near enough, maps it  *)
(* to a path waypoint and debounces the result before publishing it.       *)
(*                                                                         *)
(* Conventions of the model                                                *)
(*  - a Python optional is a sequence: None is << >>, a value v is <<v>>;  *)
(*  - a position is a pair <<x, y>> of integers;                           *)
(*  - a distance is kept as its square: for integer coordinates            *)
(*    sqrt(a) < sqrt(b) iff a < b, so every comparison of the source is    *)
(*    made exactly, on squares;                                            *)
(*  - list indices are 0-based as in the source, element i of a list l is  *)
(*    l[i + 1];                                                            *)
(*  - a TrafficLight message is modelled by its ground-truth state field;  *)
(*  - an exception raised inside a callback ends the callback there        *)
(*    (rospy logs it and keeps the node running).                          *)
(***************************************************************************)
EXTENDS Integers, Sequences, FiniteSets, TLC

(* ---- styx_msgs/TrafficLight colour ids ---- *)
RED == 0
YELLOW == 1
GREEN == 2
UNKNOWN == 4

(* ---- module constants of tl_detector.py ---- *)
STATE_COUNT_THRESHOLD == 3
LIGHT_DISTANCE_THRESHOLD == 50
GENERATE_DATASET == TRUE
IMAGE_CAPTURE_DISTANCE == 100

(* ---- bounds of the model ---- *)
\* cap of state_count under Spec (the counter itself is unbounded)
MaxCount == 4
\* number of frames of a run of SpecDebounce
MaxFrames == 9

(* ---- Python values ---- *)
None == << >>
Some(v) == <<v>>
\* Python's False, which compares equal to the integer 0
PyFalse == 0
\* float('inf'): larger than every distance
inf == -1

(* ---- inputs ---- *)
\* positions a pose message can carry
PosePoints == { <<0, 0>>, <<1, 0>> }
\* config['stop_line_positions'] of a deployment
StopLineConfigs ==
    { << <<5, 0>>, <<-5, 0>> >>,
      << <<-50, 0>>, <<5, 3>>, <<5, -3>>, <<-49, 0>> >>,
      << <<102, 0>> >> }
\* msg.lights of a TrafficLightArray message
TrafficMsgs ==
    { << >>, <<RED>>, <<RED, GREEN>>, <<GREEN, RED, RED, RED>> }
\* waypoints.waypoints of a Lane message, as positions
LaneMsgs ==
    { << >>,
      << <<-5, 0>>, <<0, 0>>, <<5, 0>> >>,
      << <<5, 0>>, <<-50, 0>> >> }
\* camera images
Images == { "image" }
\* values light_classifier.get_classification can return
ClassifierRange == { RED, YELLOW, GREEN, UNKNOWN }

VARIABLES
    pose, previous_pose,          \* cached poses (optional positions)
    waypoints,                    \* cached Lane message (optional)
    waypoints_2d,                 \* points given to the KD-tree (optional)
    waypoint_tree,                \* the KD-tree, by its point list (optional)
    camera_image, has_image,      \* cached frame; has_image is unset at first
    lights,                       \* cached light list
    config,                       \* config['stop_line_positions']
    state, last_state, last_wp, state_count,   \* debounce state
    dataset_file,                 \* labels written by the dataset capture
    frame,                        \* what the callback that just ran did
    hist,                         \* the frames of the run, in order
    constructed,                  \* __init__ has reached rospy.spin()
    pose_pending                  \* the message of a pose_cb that has run
                                  \* its first statement only (optional)

vars ==
    << pose, previous_pose, waypoints, waypoints_2d, waypoint_tree,
       camera_image, has_image, lights, config, state, last_state, last_wp,
       state_count, dataset_file, frame, hist, constructed, pose_pending >>

(* ---- geometry ---- *)
Dot(a, b) == a[1] * b[1] + a[2] * b[2]
Diff(a, b) == << a[1] - b[1], a[2] - b[2] >>
\* the square of math.sqrt(diff_x * diff_x + diff_y * diff_y)
distance(a, b) == Dot(Diff(a, b), Diff(a, b))
Sq(n) == n * n
\* d < ld on floats, where ld may be inf
Less(d, ld) == ld = inf \/ (d # inf /\ d < ld)

(* ---- process_traffic_lights: the candidate loop ---- *)
\* a variant that looks at the current pose only
poses_known_current_only(p, pp) == p # None
\* "if not None in (self.pose, self.previous_pose)"
poses_known(p, pp) == p # None /\ pp # None
\* a variant with "distance <= light_distance"
closer_or_equal(val, d, light_distance) ==
    val > 0 /\ (light_distance = inf \/ d <= light_distance)
\* "if val > 0 and distance < light_distance"
closer(val, d, light_distance) == val > 0 /\ Less(d, light_distance)

\* the locals before the loop; raised: the loop ended in an exception
no_candidate ==
    [ light_distance |-> inf, stop_line_idx |-> -1, closest_light |-> None,
      raised |-> FALSE ]

\* the loop "for idx, light in enumerate(self.lights)" from index idx on:
\* stop_line_positions[idx] raises IndexError past the end of the list, and
\* reading the position of a pose that is None raises AttributeError
RECURSIVE scan(_, _, _, _, _, _)
scan(idx, acc, lts, stop_line_positions, p, pp) ==
    IF idx >= Len(lts) THEN acc
    ELSE IF idx >= Len(stop_line_positions) \/ p = None \/ pp = None
    THEN [acc EXCEPT !.raised = TRUE]
    ELSE LET stop_line_position == stop_line_positions[idx + 1]
             d == distance(p[1], stop_line_position)
             val == Dot(Diff(stop_line_position, p[1]), Diff(p[1], pp[1]))
         IN  scan(idx + 1,
                  IF closer(val, d, acc.light_distance)
                  THEN [acc EXCEPT !.light_distance = d,
                                   !.closest_light = Some(lts[idx + 1]),
                                   !.stop_line_idx = idx]
                  ELSE acc,
                  lts, stop_line_positions, p, pp)

\* light_distance, stop_line_idx and closest_light after the loop
select(p, pp, lts, stop_line_positions) ==
    IF poses_known(p, pp)
    THEN scan(0, no_candidate, lts, stop_line_positions, p, pp)
    ELSE no_candidate

\* "if light_distance < LIGHT_DISTANCE_THRESHOLD"
in_range(light_distance) ==
    Less(light_distance, Sq(LIGHT_DISTANCE_THRESHOLD))

(* ---- try_image_capture: the labels in the dataset file afterwards ---- *)
\* elapsed: rospy.Time.now() >= image_write_ts + 0.2 s
try_image_capture(light, light_distance, has_img, st, rows, elapsed) ==
    IF light_distance > Sq(IMAGE_CAPTURE_DISTANCE) THEN rows
    ELSE IF has_img = "True" /\ (st # light \/ elapsed)
    THEN rows \cup {light}
    ELSE rows

(* ---- get_light_state: cls is the classifier's answer for the image ---- *)
get_light_state(has_img, cls) ==
    IF has_img # "True" THEN PyFalse ELSE cls

\* "self.has_image" is assigned nowhere but in image_cb: reading it on a
\* node that never ran image_cb raises AttributeError
get_light_state_raises(has_img) == has_img = "unset"

(* ---- the spatial index ---- *)
\* KDTree(points): the constructor raises on an empty point list, which
\* leaves waypoint_tree as it was
KDTree(points, old) == IF points = << >> THEN old ELSE Some(points)
\* waypoint_tree.query([x, y], 1)[1]: an index of a nearest point (the
\* tree's choice among equally near points is not specified)
get_closest_waypoint(tree, xy) ==
    { i \in 0 .. Len(tree[1]) - 1 :
        \A j \in 0 .. Len(tree[1]) - 1 :
            distance(tree[1][i + 1], xy) <= distance(tree[1][j + 1], xy) }

(* ---- process_traffic_lights ---- *)
\* the candidate process_traffic_lights finds in the current state
candidate == select(pose, previous_pose, lights, config)

\* the answers the spatial index can give on this frame, if it is asked
query_answers ==
    IF /\ ~candidate.raised
       /\ candidate.closest_light # None
       /\ in_range(candidate.light_distance)
       /\ waypoint_tree # None
    THEN get_closest_waypoint(waypoint_tree, config[candidate.stop_line_idx + 1])
    ELSE { -1 }

\* a variant in which the capture leaks into the result: a frame that
\* wrote a label returns that label in place of the classifier's answer
process_traffic_lights_labelled(has_img, cls, elapsed, q) ==
    LET c == candidate
        base == [ raised |-> FALSE, light_wp |-> -1, st |-> UNKNOWN,
                  stop_line_idx |-> c.stop_line_idx,
                  light_distance |-> c.light_distance,
                  classified |-> FALSE, queried |-> FALSE, cls |-> -1,
                  rows |-> dataset_file ]
    IN  IF c.raised THEN [base EXCEPT !.raised = TRUE]
        ELSE IF c.closest_light # None
        THEN LET wrote == /\ GENERATE_DATASET
                          /\ c.light_distance <= Sq(IMAGE_CAPTURE_DISTANCE)
                          /\ has_img = "True"
                          /\ (state # c.closest_light[1] \/ elapsed)
                 rows1 == IF wrote
                          THEN dataset_file \cup {c.closest_light[1]}
                          ELSE dataset_file
             IN  IF in_range(c.light_distance)
                 THEN IF waypoint_tree = None
                      THEN [base EXCEPT !.raised = TRUE, !.rows = rows1,
                                        !.classified = (has_img = "True"),
                                        !.cls = cls, !.queried = TRUE]
                      ELSE [base EXCEPT !.light_wp = q,
                                        !.st = IF wrote
                                               THEN c.closest_light[1]
                                               ELSE get_light_state(has_img, cls),
                                        !.rows = rows1,
                                        !.classified = (has_img = "True"),
                                        !.cls = cls, !.queried = TRUE]
                 ELSE [base EXCEPT !.rows = rows1]
        ELSE base

\* the outcome of one call: the returned pair (light_wp, st) unless raised,
\* the loop's locals, which collaborators were called, the dataset labels
process_traffic_lights(has_img, cls, elapsed, q) ==
    LET c == candidate
        base == [ raised |-> FALSE, light_wp |-> -1, st |-> UNKNOWN,
                  stop_line_idx |-> c.stop_line_idx,
                  light_distance |-> c.light_distance,
                  classified |-> FALSE, queried |-> FALSE, cls |-> -1,
                  rows |-> dataset_file ]
    IN  IF c.raised THEN [base EXCEPT !.raised = TRUE]
        ELSE IF c.closest_light # None
        THEN LET rows1 == IF GENERATE_DATASET
                          THEN try_image_capture(c.closest_light[1],
                                   c.light_distance, has_img, state,
                                   dataset_file, elapsed)
                          ELSE dataset_file
             IN  IF in_range(c.light_distance)
                 THEN IF waypoint_tree = None
                      THEN [base EXCEPT !.raised = TRUE, !.rows = rows1,
                                        !.classified = (has_img = "True"),
                                        !.cls = cls, !.queried = TRUE]
                      ELSE [base EXCEPT !.light_wp = q,
                                        !.st = get_light_state(has_img, cls),
                                        !.rows = rows1,
                                        !.classified = (has_img = "True"),
                                        !.cls = cls, !.queried = TRUE]
                 ELSE [base EXCEPT !.rows = rows1]
        ELSE base

(* ---- the debounce of image_cb ---- *)
\* variants that commit one frame earlier and one frame later
threshold_reached_early(cnt) == cnt + 1 >= STATE_COUNT_THRESHOLD
threshold_reached_late(cnt) == cnt > STATE_COUNT_THRESHOLD
\* "elif self.state_count >= STATE_COUNT_THRESHOLD"
threshold_reached(cnt) == cnt >= STATE_COUNT_THRESHOLD
\* a variant that commits the mapped index whatever the colour
commit_wp_any_colour(light_wp, s) == light_wp
\* a variant that treats YELLOW as a stop, too
commit_wp_red_or_yellow(light_wp, s) ==
    IF s = RED \/ s = YELLOW THEN light_wp ELSE -1
\* "light_wp = light_wp if state == TrafficLight.RED else -1"
commit_wp(light_wp, s) == IF s = RED THEN light_wp ELSE -1

\* a variant that does not count the frame that resets the counter
debounce_reset_uncounted(st, cnt, lst, lwp, light_wp, s) ==
    IF st # s
    THEN [ state |-> s, state_count |-> 0, last_state |-> lst,
           last_wp |-> lwp, pub |-> << >>, branch |-> "reset" ]
    ELSE IF threshold_reached(cnt)
    THEN [ state |-> st, state_count |-> cnt + 1, last_state |-> st,
           last_wp |-> commit_wp(light_wp, s),
           pub |-> << commit_wp(light_wp, s) >>, branch |-> "commit" ]
    ELSE [ state |-> st, state_count |-> cnt + 1, last_state |-> lst,
           last_wp |-> lwp, pub |-> << lwp >>, branch |-> "hold" ]

\* a variant that goes on counting over a change of the resolved state
debounce_reset_keeps_count(st, cnt, lst, lwp, light_wp, s) ==
    IF st # s
    THEN [ state |-> s, state_count |-> cnt + 1, last_state |-> lst,
           last_wp |-> lwp, pub |-> << >>, branch |-> "reset" ]
    ELSE IF threshold_reached(cnt)
    THEN [ state |-> st, state_count |-> cnt + 1, last_state |-> st,
           last_wp |-> commit_wp(light_wp, s),
           pub |-> << commit_wp(light_wp, s) >>, branch |-> "commit" ]
    ELSE [ state |-> st, state_count |-> cnt + 1, last_state |-> lst,
           last_wp |-> lwp, pub |-> << lwp >>, branch |-> "hold" ]

\* a variant that keeps a committed red index while the colour stays RED
debounce_sticky_index(st, cnt, lst, lwp, light_wp, s) ==
    IF st # s
    THEN [ state |-> s, state_count |-> 0 + 1, last_state |-> lst,
           last_wp |-> lwp, pub |-> << >>, branch |-> "reset" ]
    ELSE IF threshold_reached(cnt)
    THEN LET wp == IF s = RED /\ lst = RED /\ lwp >= 0 THEN lwp
                   ELSE commit_wp(light_wp, s)
         IN  [ state |-> st, state_count |-> cnt + 1, last_state |-> st,
               last_wp |-> wp, pub |-> << wp >>, branch |-> "commit" ]
    ELSE [ state |-> st, state_count |-> cnt + 1, last_state |-> lst,
           last_wp |-> lwp, pub |-> << lwp >>, branch |-> "hold" ]

\* the debounce fields after a frame that resolved (light_wp, s), the values
\* it published and the branch it took
debounce(st, cnt, lst, lwp, light_wp, s) ==
    IF st # s
    THEN [ state |-> s, state_count |-> 0 + 1, last_state |-> lst,
           last_wp |-> lwp, pub |-> << >>, branch |-> "reset" ]
    ELSE IF threshold_reached(cnt)
    THEN [ state |-> st, state_count |-> cnt + 1, last_state |-> st,
           last_wp |-> commit_wp(light_wp, s),
           pub |-> << commit_wp(light_wp, s) >>, branch |-> "commit" ]
    ELSE [ state |-> st, state_count |-> cnt + 1, last_state |-> lst,
           last_wp |-> lwp, pub |-> << lwp >>, branch |-> "hold" ]

(* ---- the record of the callback that just ran ---- *)
\* the debounce fields, as a record
debounce_state ==
    [ state |-> state, state_count |-> state_count,
      last_state |-> last_state, last_wp |-> last_wp ]

\* the last callback was not image_cb
NoFrame ==
    [ kind |-> "none", raised |-> FALSE, light_wp |-> -1, st |-> UNKNOWN,
      stop_line_idx |-> -1, light_distance |-> inf, classified |-> FALSE,
      queried |-> FALSE, cls |-> -1, branch |-> "none", pub |-> << >>,
      pre |-> [ state |-> UNKNOWN, state_count |-> 0,
                last_state |-> UNKNOWN, last_wp |-> -1 ] ]

\* the last callback was image_cb: r is what process_traffic_lights did, d
\* what the debounce did, pre the debounce fields before the frame
FrameOf(r, d, pre) ==
    [ kind |-> "frame", raised |-> r.raised, light_wp |-> r.light_wp,
      st |-> r.st, stop_line_idx |-> r.stop_line_idx,
      light_distance |-> r.light_distance, classified |-> r.classified,
      queried |-> r.queried, cls |-> r.cls,
      branch |-> IF r.raised THEN "raised" ELSE d.branch,
      pub |-> IF r.raised THEN << >> ELSE d.pub,
      pre |-> pre ]

(* ---- the state after construction ---- *)
Init ==
    /\ pose = None
    /\ previous_pose = None
    /\ waypoints = None
    /\ waypoints_2d = None
    /\ waypoint_tree = None
    /\ camera_image = None
    /\ has_image = "unset"
    /\ lights = << >>
    /\ config \in StopLineConfigs
    /\ state = UNKNOWN
    /\ last_state = UNKNOWN
    /\ last_wp = -1
    /\ state_count = 0
    /\ dataset_file = {}
    /\ frame = NoFrame
    /\ hist = << >>
    /\ constructed = TRUE
    /\ pose_pending = None

(* ---- the callbacks ---- *)
pose_cb(msg) ==
    /\ previous_pose' = pose
    /\ pose' = Some(msg)
    /\ frame' = NoFrame
    /\ UNCHANGED << waypoints, waypoints_2d, waypoint_tree, camera_image,
                    has_image, lights, config, state, last_state, last_wp,
                    state_count, dataset_file >>

\* "if not self.waypoints_2d": None and the empty list are both falsy
falsy(w2d) == w2d = None \/ w2d = Some(<< >>)

waypoints_cb(wps) ==
    /\ waypoints' = Some(wps)
    /\ IF falsy(waypoints_2d)
       THEN /\ waypoints_2d' = Some(wps)
            /\ waypoint_tree' = KDTree(wps, waypoint_tree)
       ELSE UNCHANGED << waypoints_2d, waypoint_tree >>
    /\ frame' = NoFrame
    /\ UNCHANGED << pose, previous_pose, camera_image, has_image, lights,
                    config, state, last_state, last_wp, state_count,
                    dataset_file >>

traffic_cb(msg) ==
    /\ lights' = msg
    /\ frame' = NoFrame
    /\ UNCHANGED << pose, previous_pose, waypoints, waypoints_2d,
                    waypoint_tree, camera_image, has_image, config, state,
                    last_state, last_wp, state_count, dataset_file >>

image_cb(msg, cls, elapsed) ==
    \E q \in query_answers :
        LET r == process_traffic_lights("True", cls, elapsed, q)
            d == debounce(state, state_count, last_state, last_wp,
                          r.light_wp, r.st)
        IN  /\ has_image' = "True"
            /\ camera_image' = Some(msg)
            /\ dataset_file' = r.rows
            /\ IF r.raised
               THEN UNCHANGED << state, state_count, last_state, last_wp >>
               ELSE /\ state' = d.state
                    /\ state_count' = d.state_count
                    /\ last_state' = d.last_state
                    /\ last_wp' = d.last_wp
            /\ frame' = FrameOf(r, d, debounce_state)
            /\ UNCHANGED << pose, previous_pose, waypoints, waypoints_2d,
                            waypoint_tree, lights, config >>

\* the callbacks run one after the other, on a constructed node
Sequential == UNCHANGED << constructed, pose_pending >>

(* ---- the node: callbacks arrive in any order ---- *)
Next ==
    \/ \E msg \in PosePoints :
           pose_cb(msg) /\ UNCHANGED hist /\ Sequential
    \/ \E wps \in LaneMsgs :
           waypoints_cb(wps) /\ UNCHANGED hist /\ Sequential
    \/ \E msg \in TrafficMsgs :
           traffic_cb(msg) /\ UNCHANGED hist /\ Sequential
    \/ \E msg \in Images, cls \in ClassifierRange, elapsed \in BOOLEAN :
           /\ state_count < MaxCount
           /\ image_cb(msg, cls, elapsed)
           /\ UNCHANGED hist
           /\ Sequential

Spec == Init /\ [][Next]_vars

(* ---- the debounce under a fixed, fully known scene ---- *)
\* The vehicle has moved from (0,0) to (1,0), the path is known, and the
\* stop line (5,0) of light 0 is ahead at distance 4; the light list comes
\* and goes, so a frame has that candidate or none.  Every frame is kept in
\* hist.  InitDebounce is the state of Spec after pose_cb((0,0)),
\* pose_cb((1,0)) and waypoints_cb(DebounceLane).
DebounceLane == << <<-5, 0>>, <<0, 0>>, <<5, 0>> >>
DebounceTrafficMsgs == { << >>, <<RED, GREEN>> }
DebounceClasses == { RED, GREEN }

InitDebounce ==
    /\ pose = Some(<<1, 0>>)
    /\ previous_pose = Some(<<0, 0>>)
    /\ waypoints = Some(DebounceLane)
    /\ waypoints_2d = Some(DebounceLane)
    /\ waypoint_tree = Some(DebounceLane)
    /\ camera_image = None
    /\ has_image = "unset"
    /\ lights = << >>
    /\ config = << <<5, 0>>, <<-5, 0>> >>
    /\ state = UNKNOWN
    /\ last_state = UNKNOWN
    /\ last_wp = -1
    /\ state_count = 0
    /\ dataset_file = {}
    /\ frame = NoFrame
    /\ hist = << >>
    /\ constructed = TRUE
    /\ pose_pending = None

NextDebounce ==
    \/ \E msg \in DebounceTrafficMsgs :
           traffic_cb(msg) /\ UNCHANGED hist /\ Sequential
    \/ \E msg \in Images, cls \in DebounceClasses, elapsed \in BOOLEAN :
           /\ Len(hist) < MaxFrames
           /\ image_cb(msg, cls, elapsed)
           /\ hist' = Append(hist, frame')
           /\ Sequential

SpecDebounce == InitDebounce /\ [][NextDebounce]_vars

(***************************************************************************)
(* The vehicle moving and standing on a built path: the stop lines are at  *)
(* (5,0) and (-5,0), the pose updates put the vehicle at (0,0) or (1,0),   *)
(* heading either way or standing still, and frames go on after a commit   *)
(* (up to a counter of MaxCount + 1).                                      *)
(***************************************************************************)
ApproachTrafficMsgs == { <<RED, RED>>, <<RED, GREEN>> }
ApproachClasses == { RED, GREEN }

InitApproach ==
    /\ pose = None
    /\ previous_pose = None
    /\ waypoints = Some(DebounceLane)
    /\ waypoints_2d = Some(DebounceLane)
    /\ waypoint_tree = Some(DebounceLane)
    /\ camera_image = None
    /\ has_image = "unset"
    /\ lights = <<RED, RED>>
    /\ config = << <<5, 0>>, <<-5, 0>> >>
    /\ state = UNKNOWN
    /\ last_state = UNKNOWN
    /\ last_wp = -1
    /\ state_count = 0
    /\ dataset_file = {}
    /\ frame = NoFrame
    /\ hist = << >>
    /\ constructed = TRUE
    /\ pose_pending = None

NextApproach ==
    \/ \E msg \in PosePoints :
           pose_cb(msg) /\ UNCHANGED hist /\ Sequential
    \/ \E msg \in ApproachTrafficMsgs :
           traffic_cb(msg) /\ UNCHANGED hist /\ Sequential
    \/ \E msg \in Images, cls \in ApproachClasses, elapsed \in BOOLEAN :
           /\ state_count <= MaxCount
           /\ image_cb(msg, cls, elapsed)
           /\ UNCHANGED hist
           /\ Sequential

SpecApproach == InitApproach /\ [][NextApproach]_vars

(***************************************************************************)
(* get_light_state as a unit: the method is applied to the candidate of    *)
(* the fixed scene on a node whose has_image is unset (no image_cb has     *)
(* run), False (the value its first branch tests for) or True, and what it *)
(* returns goes through the debounce of image_cb.                          *)
(***************************************************************************)
ResolverFlags == { "unset", "False", "True" }

InitResolver ==
    /\ pose = Some(<<1, 0>>)
    /\ previous_pose = Some(<<0, 0>>)
    /\ waypoints = Some(DebounceLane)
    /\ waypoints_2d = Some(DebounceLane)
    /\ waypoint_tree = Some(DebounceLane)
    /\ camera_image = None
    /\ has_image \in ResolverFlags
    /\ lights = <<RED, GREEN>>
    /\ config = << <<5, 0>>, <<-5, 0>> >>
    /\ state = UNKNOWN
    /\ last_state = UNKNOWN
    /\ last_wp = -1
    /\ state_count = 0
    /\ dataset_file = {}
    /\ frame = NoFrame
    /\ hist = << >>
    /\ constructed = TRUE
    /\ pose_pending = None

\* lines 208-211 for the candidate, then lines 106-116
resolver_frame(cls) ==
    \E q \in query_answers :
        LET raised == get_light_state_raises(has_image)
            r == [ raised |-> raised,
                   light_wp |-> IF raised THEN -1 ELSE q,
                   st |-> IF raised THEN UNKNOWN
                          ELSE get_light_state(has_image, cls),
                   stop_line_idx |-> candidate.stop_line_idx,
                   light_distance |-> candidate.light_distance,
                   classified |-> (has_image = "True"),
                   queried |-> ~raised, cls |-> cls,
                   rows |-> dataset_file ]
            d == debounce(state, state_count, last_state, last_wp,
                          r.light_wp, r.st)
        IN  /\ IF r.raised
               THEN UNCHANGED << state, state_count, last_state, last_wp >>
               ELSE /\ state' = d.state
                    /\ state_count' = d.state_count
                    /\ last_state' = d.last_state
                    /\ last_wp' = d.last_wp
            /\ frame' = FrameOf(r, d, debounce_state)
            /\ hist' = Append(hist, frame')
            /\ UNCHANGED << pose, previous_pose, waypoints, waypoints_2d,
                            waypoint_tree, camera_image, has_image, lights,
                            config, dataset_file >>

NextResolver ==
    \E cls \in DebounceClasses :
        /\ Len(hist) < MaxFrames
        /\ resolver_frame(cls)
        /\ Sequential

SpecResolver == InitResolver /\ [][NextResolver]_vars

(***************************************************************************)
(* Callbacks of different topics running at once. rospy calls the callback *)
(* of a subscription on the thread that receives the topic's messages, one *)
(* thread for each connection, and the node takes no lock: the two         *)
(* assignments of pose_cb are separate steps, and any other callback can   *)
(* run between them. The scene is the one of SpecApproach.                 *)
(***************************************************************************)
\* line 76: "self.previous_pose = self.pose"
pose_cb_76(msg) ==
    /\ pose_pending = None
    /\ previous_pose' = pose
    /\ pose_pending' = Some(msg)
    /\ frame' = NoFrame
    /\ UNCHANGED << pose, waypoints, waypoints_2d, waypoint_tree,
                    camera_image, has_image, lights, config, state,
                    last_state, last_wp, state_count, dataset_file >>

\* line 77: "self.pose = msg"
pose_cb_77 ==
    /\ pose_pending # None
    /\ pose' = pose_pending
    /\ pose_pending' = None
    /\ frame' = NoFrame
    /\ UNCHANGED << previous_pose, waypoints, waypoints_2d, waypoint_tree,
                    camera_image, has_image, lights, config, state,
                    last_state, last_wp, state_count, dataset_file >>

NextConcurrent ==
    \/ \E msg \in PosePoints :
           pose_cb_76(msg) /\ UNCHANGED << hist, constructed >>
    \/ pose_cb_77 /\ UNCHANGED << hist, constructed >>
    \/ \E msg \in ApproachTrafficMsgs :
           traffic_cb(msg) /\ UNCHANGED << hist, constructed, pose_pending >>
    \/ \E msg \in Images, cls \in ApproachClasses, elapsed \in BOOLEAN :
           /\ state_count < MaxCount
           /\ image_cb(msg, cls, elapsed)
           /\ UNCHANGED << hist, constructed, pose_pending >>

SpecConcurrent == InitApproach /\ [][NextConcurrent]_vars

(***************************************************************************)
(* The constructor and the callbacks. __init__ registers the four          *)
(* subscribers (46-57) before it assigns config, the publisher, the        *)
(* classifier and the debounce fields (59-71), and rospy delivers messages *)
(* to a subscriber from the moment it is registered. Lines 59-71 are taken *)
(* as one step; until it is taken the fields it assigns do not exist       *)
(* (None here).                                                            *)
(***************************************************************************)
InitConstruction ==
    /\ pose = None
    /\ previous_pose = None
    /\ waypoints = None
    /\ waypoints_2d = None
    /\ waypoint_tree = None
    /\ camera_image = None
    /\ has_image = "unset"
    /\ lights = << >>
    /\ config = None
    /\ state = None
    /\ last_state = None
    /\ last_wp = None
    /\ state_count = None
    /\ dataset_file = {}
    /\ frame = NoFrame
    /\ hist = << >>
    /\ constructed = FALSE
    /\ pose_pending = None

\* image_cb before line 60: lines 96-97, then "self.config" at line 180
\* raises AttributeError
image_cb_unconstructed(msg) ==
    /\ ~constructed
    /\ has_image' = "True"
    /\ camera_image' = Some(msg)
    /\ frame' = [NoFrame EXCEPT !.kind = "frame", !.raised = TRUE,
                                !.branch = "raised"]
    /\ UNCHANGED << pose, previous_pose, waypoints, waypoints_2d,
                    waypoint_tree, lights, config, state, last_state,
                    last_wp, state_count, dataset_file >>

\* lines 59-71
finish_init ==
    /\ ~constructed
    /\ config' \in StopLineConfigs
    /\ state' = UNKNOWN
    /\ last_state' = UNKNOWN
    /\ last_wp' = -1
    /\ state_count' = 0
    /\ constructed' = TRUE
    /\ frame' = NoFrame
    /\ UNCHANGED << pose, previous_pose, waypoints, waypoints_2d,
                    waypoint_tree, camera_image, has_image, lights,
                    dataset_file >>

NextConstruction ==
    \/ \E msg \in PosePoints :
           /\ ~constructed
           /\ pose_cb(msg)
           /\ UNCHANGED hist /\ Sequential
    \/ \E wps \in LaneMsgs :
           /\ ~constructed
           /\ waypoints_cb(wps)
           /\ UNCHANGED hist /\ Sequential
    \/ \E msg \in TrafficMsgs :
           /\ ~constructed
           /\ traffic_cb(msg)
           /\ UNCHANGED hist /\ Sequential
    \/ \E msg \in Images :
           image_cb_unconstructed(msg) /\ UNCHANGED hist /\ Sequential
    \/ finish_init /\ UNCHANGED << hist, pose_pending >>
    \/ \E msg \in Images, cls \in ClassifierRange, elapsed \in BOOLEAN :
           /\ constructed
           /\ state_count < MaxCount
           /\ image_cb(msg, cls, elapsed)
           /\ UNCHANGED hist
           /\ Sequential

SpecConstruction == InitConstruction /\ [][NextConstruction]_vars

(***************************************************************************)
(* Properties of the debounce, over the frames of a run (SpecDebounce)     *)
(***************************************************************************)
\* the debounce fields after frame i of the run
Post(i) == IF i < Len(hist) THEN hist[i + 1].pre ELSE debounce_state

\* the number of publish events of the frames of h
RECURSIVE PublishCount(_)
PublishCount(h) ==
    IF h = << >> THEN 0 ELSE Len(Head(h).pub) + PublishCount(Tail(h))

\* frame f had no candidate: (-1, UNKNOWN) went to the debounce
NoCandidate(f) == f.stop_line_idx = -1 /\ f.light_wp = -1 /\ f.st = UNKNOWN

\* frames a..b of the run all resolved the state s
AllResolved(a, b, s) == \A j \in a .. b : hist[j].st = s

\* C1: every processed frame publishes exactly one integer: the number of
\* publish events equals the number of frames processed, also when a frame
\* resolves a state different from the observed one.
C1_OnePublishPerFrame == PublishCount(hist) = Len(hist)

\* the input of P4, and the run starting with its first n frames, each with
\* the same mapped waypoint index w >= 0
P4 == << RED, RED, GREEN, RED, RED, RED >>
FedP4(n) ==
    /\ Len(hist) >= n
    /\ hist[1].light_wp >= 0
    /\ \A i \in 1 .. n :
        /\ i <= Len(P4) => hist[i].st = P4[i]
        /\ hist[i].light_wp = hist[1].light_wp

\* every value frame i published is -1
OnlyMinusOne(i) == \A k \in 1 .. Len(hist[i].pub) : hist[i].pub[k] = -1

\* C2 as stated: fed P4 from the initial debounce state, the values
\* published at positions 1..5 are -1 and position 6 publishes w.
C2_P4_AsStated ==
    FedP4(6) =>
        /\ \A i \in 1 .. 5 : OnlyMinusOne(i)
        /\ hist[6].pub = << hist[6].light_wp >>

\* C2 amended: fed P4 from the initial debounce state, positions 2, 5 and 6
\* publish -1 and positions 1, 3 and 4 (where the resolved state changes)
\* publish nothing; w is published at position 7, when a fourth consecutive
\* RED follows.
C2_P4_Hysteresis ==
    FedP4(6) =>
        /\ \A i \in {2, 5, 6} : hist[i].pub = << -1 >>
        /\ \A i \in {1, 3, 4} : hist[i].pub = << >>
        /\ (FedP4(7) /\ hist[7].st = RED) =>
               hist[7].pub = << hist[7].light_wp >>

C2_Witness ==
    /\ FedP4(7)
    /\ hist[7].st = RED
    /\ hist[6].pub = << -1 >>
    /\ hist[7].pub = << 2 >>

\* C3: last_wp changes only on a frame whose resolved state equals the
\* observed state with the count already >= THRESHOLD, and that frame emits
\* the mapped index if the state is RED and -1 otherwise; a frame with equal
\* state and a smaller count emits the unchanged last_wp and leaves
\* last_state and last_wp alone; so a committed red index is replaced by -1
\* only at the end of a run of at least THRESHOLD non-RED readings.
C3_CommitOnlyAtThreshold ==
    \A i \in 1 .. Len(hist) :
        LET f == hist[i]
            same == f.st = f.pre.state
        IN  /\ Post(i).last_wp # f.pre.last_wp =>
                   same /\ f.pre.state_count >= STATE_COUNT_THRESHOLD
            /\ (same /\ f.pre.state_count >= STATE_COUNT_THRESHOLD) =>
                   /\ f.pub = << IF f.st = RED THEN f.light_wp ELSE -1 >>
                   /\ Post(i).last_wp = f.pub[1]
            /\ (same /\ f.pre.state_count < STATE_COUNT_THRESHOLD) =>
                   /\ f.pub = << f.pre.last_wp >>
                   /\ Post(i).last_wp = f.pre.last_wp
                   /\ Post(i).last_state = f.pre.last_state
            /\ (f.pre.last_wp >= 0 /\ Post(i).last_wp = -1) =>
                   /\ i >= STATE_COUNT_THRESHOLD
                   /\ \A j \in i - STATE_COUNT_THRESHOLD + 1 .. i :
                          hist[j].st # RED

\* a red index was committed, survived three non-RED readings (the third
\* still emitting it) and was replaced by -1 on the fourth
C3_Witness ==
    \E i \in 1 .. Len(hist) :
        /\ i > STATE_COUNT_THRESHOLD + 1
        /\ hist[i].pre.last_wp >= 0
        /\ Post(i).last_wp = -1
        /\ hist[i - 1].branch = "hold"
        /\ hist[i - 1].st # RED
        /\ hist[i - 1].pub = << hist[i].pre.last_wp >>
        /\ \E k \in 1 .. i - 1 :
             /\ hist[k].branch = "commit"
             /\ hist[k].st = RED
             /\ hist[k].pub = << hist[k].light_wp >>

\* C4: the counter is incremented on every frame, so frame i commits exactly
\* when it is at least the (THRESHOLD+1)-th consecutive frame resolving the
\* same state: after a change to s on frame k, s is committed on frame
\* k+THRESHOLD and on no earlier frame, and after a one-frame flicker the old
\* state needs THRESHOLD+1 consecutive frames to be committed again.
C4_CommitOnThresholdPlusOne ==
    /\ \A i \in 1 .. Len(hist) :
        /\ hist[i].pre.state_count + 1 = Post(i).state_count
               \/ (hist[i].branch = "reset" /\ Post(i).state_count = 1)
        /\ hist[i].branch = "commit" <=>
               /\ i > STATE_COUNT_THRESHOLD
               /\ AllResolved(i - STATE_COUNT_THRESHOLD, i, hist[i].st)
    /\ \A k \in 1 .. Len(hist) :
        hist[k].branch = "reset" =>
            /\ \A i \in k .. k + STATE_COUNT_THRESHOLD - 1 :
                   i <= Len(hist) => hist[i].branch # "commit"
            /\ ( /\ k + STATE_COUNT_THRESHOLD <= Len(hist)
                 /\ AllResolved(k, k + STATE_COUNT_THRESHOLD, hist[k].st) ) =>
                   hist[k + STATE_COUNT_THRESHOLD].branch = "commit"

\* a state is committed, flickers for one frame, and is committed again on
\* the (THRESHOLD+1)-th frame after the flicker, not on the THRESHOLD-th
C4_Witness ==
    \E k \in 2 .. Len(hist) :
        /\ k + STATE_COUNT_THRESHOLD + 1 <= Len(hist)
        /\ hist[k - 1].branch = "commit"
        /\ hist[k].st # hist[k - 1].st
        /\ AllResolved(k + 1, k + STATE_COUNT_THRESHOLD + 1, hist[k - 1].st)
        /\ hist[k + STATE_COUNT_THRESHOLD].branch = "hold"
        /\ hist[k + STATE_COUNT_THRESHOLD + 1].branch = "commit"

\* C5: once THRESHOLD consecutive frames without a candidate have passed,
\* every further frame without a candidate publishes -1, whatever had been
\* committed before.
C5_NoLightFallback ==
    \A i \in 1 .. Len(hist) :
        ( /\ i > STATE_COUNT_THRESHOLD
          /\ \A j \in i - STATE_COUNT_THRESHOLD .. i : NoCandidate(hist[j]) )
        => /\ hist[i].pub = << -1 >>
           /\ Post(i).last_wp = -1

\* a committed red index ages out: it is still published on the third frame
\* without a candidate and -1 is published on the fourth and the fifth
C5_Witness ==
    \E i \in 1 .. Len(hist) :
        /\ i + STATE_COUNT_THRESHOLD + 1 <= Len(hist)
        /\ hist[i].pre.last_wp >= 0
        /\ \A j \in i .. i + STATE_COUNT_THRESHOLD + 1 : NoCandidate(hist[j])
        /\ hist[i + STATE_COUNT_THRESHOLD - 1].pub = << hist[i].pre.last_wp >>
        /\ hist[i + STATE_COUNT_THRESHOLD].pub = << -1 >>
        /\ hist[i + STATE_COUNT_THRESHOLD + 1].pub = << -1 >>

(***************************************************************************)
(* Properties of a frame, in the state right after it ran (Spec): every    *)
(* other callback clears frame, so the cached pose, lights and path of     *)
(* such a state are the ones the frame read.                               *)
(***************************************************************************)
\* light i is ahead: dot(stop_line_i - pose, pose - previous_pose) > 0
Ahead(i) ==
    Dot(Diff(config[i + 1], pose[1]), Diff(pose[1], previous_pose[1])) > 0
\* the Euclidean distance |pose - stop_line_i|, squared
StopLineDistance(i) == distance(pose[1], config[i + 1])
AheadSet == { i \in 0 .. Len(lights) - 1 : Ahead(i) }
NearestAhead ==
    { i \in AheadSet :
        \A j \in AheadSet : StopLineDistance(i) <= StopLineDistance(j) }
Min(S) == CHOOSE x \in S : \A y \in S : x <= y

\* C6: with both poses known and a stop line for every light, the frame
\* selects the ahead intersection of minimal distance, the lowest index
\* among equally near ones, never one that is behind, and none when no
\* intersection is ahead.
C6_CandidateSelection ==
    ( /\ frame.kind = "frame"
      /\ pose # None /\ previous_pose # None
      /\ Len(lights) <= Len(config) )
    => /\ frame.stop_line_idx =
              IF AheadSet = {} THEN -1 ELSE Min(NearestAhead)
       /\ frame.stop_line_idx >= 0 =>
              /\ Ahead(frame.stop_line_idx)
              /\ frame.light_distance = StopLineDistance(frame.stop_line_idx)

\* two ahead intersections are equally near and the lower index is selected
C6_Witness ==
    /\ frame.kind = "frame"
    /\ pose # None /\ previous_pose # None
    /\ Len(lights) <= Len(config)
    /\ Cardinality(NearestAhead) >= 2
    /\ frame.stop_line_idx = Min(NearestAhead)
    /\ \E i \in NearestAhead : i > frame.stop_line_idx

\* P2: previous (0,0), current (1,0), lights at (5,0) and (-5,0)
C6_Witness_P2 ==
    /\ frame.kind = "frame"
    /\ previous_pose = Some(<<0, 0>>) /\ pose = Some(<<1, 0>>)
    /\ config = << <<5, 0>>, <<-5, 0>> >>
    /\ Len(lights) = 2
    /\ frame.stop_line_idx = 0

\* an intersection behind the vehicle is nearer than the selected one
C6_Witness_BehindNearer ==
    /\ frame.kind = "frame"
    /\ pose # None /\ previous_pose # None
    /\ Len(lights) <= Len(config)
    /\ frame.stop_line_idx >= 0
    /\ \E i \in 0 .. Len(lights) - 1 :
         ~Ahead(i) /\ StopLineDistance(i) < frame.light_distance

\* C7: with a stop line for every light, a selected candidate that is not
\* nearer than the relevance threshold yields (-1, UNKNOWN) without a call of the classifier or the
\* spatial index; a nearer one has the classifier called and the frame
\* returns (nearest waypoint index of its stop line, classifier result).
C7_DistanceGating ==
    ( /\ frame.kind = "frame"
      /\ Len(lights) <= Len(config)
      /\ frame.stop_line_idx >= 0 ) =>
        IF frame.light_distance >= Sq(LIGHT_DISTANCE_THRESHOLD)
        THEN /\ ~frame.raised
             /\ frame.light_wp = -1 /\ frame.st = UNKNOWN
             /\ ~frame.classified /\ ~frame.queried
        ELSE /\ frame.classified
             /\ ~frame.raised
             /\ frame.st = frame.cls
             /\ frame.light_wp \in
                    get_closest_waypoint(waypoint_tree,
                                         config[frame.stop_line_idx + 1])

\* the same with the spatial index built before the frame: the returned
\* pair is missing only on a frame that queries an index that is not built
C7_GatingOnceIndexBuilt ==
    (waypoint_tree # None) => C7_DistanceGating

\* C8: a frame that runs while the pose or the previous pose is missing
\* selects no candidate whatever the lights are, returns (-1, UNKNOWN) and
\* completes without an exception.
C8_MissingPose ==
    (frame.kind = "frame" /\ (pose = None \/ previous_pose = None)) =>
        /\ ~frame.raised
        /\ frame.stop_line_idx = -1
        /\ frame.light_wp = -1 /\ frame.st = UNKNOWN
        /\ ~frame.classified /\ ~frame.queried
        /\ frame.branch \in {"reset", "commit", "hold"}

\* exactly one pose was received and there are more lights than stop lines
C8_Witness ==
    /\ frame.kind = "frame"
    /\ pose # None /\ previous_pose = None
    /\ Len(lights) > Len(config)
    /\ ~frame.raised
    /\ frame.stop_line_idx = -1

(***************************************************************************)
(* Properties of the path callbacks (Spec)                                 *)
(***************************************************************************)
\* C9: the point set behind the spatial index after any later path update
\* equals the one built from the first path update, also when the first
\* update carries no waypoint.
C9_BuildOnce ==
    [][ waypoints_2d # None =>
            /\ waypoints_2d' = waypoints_2d
            /\ waypoint_tree' = waypoint_tree ]_vars

\* C10: the cached waypoint sequence never changes after the first path
\* update, so it always is the path the spatial index was built from
\* (stated for a spatial index that is built, which leaves aside a first
\* update without waypoints).
C10_CachedPathStable ==
    [][ (waypoints # None /\ waypoint_tree # None) =>
            /\ waypoints' = waypoints
            /\ waypoints_2d' = waypoints' ]_vars

(***************************************************************************)
(* Preconditions of a frame (Spec)                                         *)
(***************************************************************************)
\* C11: a frame never reaches get_closest_waypoint while waypoint_tree is
\* None: whenever the frame queries the index, the index has been built.
C11_NoQueryBeforePath ==
    (frame.kind = "frame" /\ frame.queried) => waypoint_tree # None

\* C13: whenever a frame is processed there is a stop line for every light
\* the selector enumerates: the lights list is never longer than the
\* configured stop lines (a consequence of len(stop_lines) = len(lights)).
C13_StopLineForEveryLight ==
    (frame.kind = "frame" /\ poses_known(pose, previous_pose))
        => Len(lights) <= Len(config)

\* C13, in full: the two lists have the same length at every frame
C13_ListsAligned == frame.kind = "frame" => Len(lights) = Len(config)

\* the frame that enumerates a light without a stop line ends in IndexError
C13_IndexErrorFrame ==
    /\ frame.kind = "frame"
    /\ poses_known(pose, previous_pose)
    /\ Len(lights) > Len(config)
    /\ frame.raised
    /\ ~frame.queried

(***************************************************************************)
(* A stationary vehicle (Spec)                                             *)
(***************************************************************************)
\* both poses are known and at the same position: the motion vector is zero
Stationary ==
    /\ pose # None
    /\ previous_pose # None
    /\ pose[1] = previous_pose[1]

\* C16: whenever the current pose position equals the previous one, the
\* frame's process_traffic_lights selects nothing and returns (-1, UNKNOWN),
\* whatever the lights are.
C16_StationaryNoCandidate ==
    (frame.kind = "frame" /\ Stationary)
        => (~frame.raised /\ NoCandidate(frame))

\* the same with a stop line for every light (no IndexError in the loop):
\* the frame returns (-1, UNKNOWN), and once the observed state has been
\* UNKNOWN for THRESHOLD frames the next such frame commits and publishes -1
C16_StationaryAligned ==
    (frame.kind = "frame" /\ Stationary /\ Len(lights) <= Len(config))
        => /\ ~frame.raised
           /\ NoCandidate(frame)
           /\ ~frame.classified /\ ~frame.queried
           /\ (frame.pre.state = UNKNOWN
                 /\ frame.pre.state_count >= STATE_COUNT_THRESHOLD)
                => (frame.pub = << -1 >> /\ last_wp = -1)

\* a red index was committed, the vehicle stands still in front of that red
\* light, and the frame replaces the index by -1
C16_RedIndexReplaced ==
    /\ frame.kind = "frame"
    /\ Stationary
    /\ lights # << >>
    /\ \E i \in 1 .. Len(lights) : lights[i] = RED
    /\ frame.pre.last_wp >= 0
    /\ frame.pub = << -1 >>
    /\ last_wp = -1

(***************************************************************************)
(* The committed index (Spec)                                              *)
(***************************************************************************)
\* the indices the spatial index can return for a configured stop line
StopLineWaypoints ==
    IF waypoint_tree = None THEN {}
    ELSE UNION { get_closest_waypoint(waypoint_tree, config[i]) :
                    i \in 1 .. Len(config) }

\* C19: between frames, last_wp >= 0 exactly when last_state is RED, and
\* last_wp is -1 or an index the spatial index returns for a stop line.
C19_LastWpIffRed ==
    /\ (last_wp >= 0) <=> (last_state = RED)
    /\ last_wp = -1 \/ last_wp \in StopLineWaypoints

\* a committed RED whose index is 0, the smallest index there is
C19_Witness ==
    /\ frame.kind = "frame"
    /\ frame.branch = "commit"
    /\ last_state = RED
    /\ last_wp = 0

\* a committed GREEN leaves -1 although the frame mapped an index
C19_Witness_Green ==
    /\ frame.kind = "frame"
    /\ frame.branch = "commit"
    /\ frame.light_wp >= 0
    /\ last_state = GREEN
    /\ last_wp = -1

(***************************************************************************)
(* Frames after a commit (SpecApproach)                                    *)
(***************************************************************************)
\* C17: a frame whose resolved state equals the observed state, with the
\* counter at THRESHOLD or more, takes the commit branch (the counter only
\* grows) and publishes its own mapped index if RED, -1 otherwise, whatever
\* index was committed before.
C17_CommitFollowsCandidate ==
    (/\ frame.kind = "frame"
     /\ ~frame.raised
     /\ frame.st = frame.pre.state
     /\ frame.pre.state_count >= STATE_COUNT_THRESHOLD)
        => /\ frame.branch = "commit"
           /\ state_count = frame.pre.state_count + 1
           /\ frame.pub = << IF frame.st = RED THEN frame.light_wp ELSE -1 >>
           /\ last_wp = frame.pub[1]
           /\ last_state = frame.st

\* RED was committed with one index, the candidate is now another red
\* light, and this frame publishes the new index at once
C17_Witness ==
    /\ frame.kind = "frame"
    /\ frame.pre.state = RED
    /\ frame.pre.last_state = RED
    /\ frame.pre.last_wp >= 0
    /\ frame.pre.state_count > STATE_COUNT_THRESHOLD
    /\ frame.st = RED
    /\ frame.light_wp >= 0
    /\ frame.light_wp # frame.pre.last_wp
    /\ frame.pub = << frame.light_wp >>

(***************************************************************************)
(* The counter, over the frames of a run (SpecDebounce)                    *)
(***************************************************************************)
\* how many of the frames n, n-1, ... in a row resolved the state s
RECURSIVE RunLength(_, _)
RunLength(n, s) ==
    IF n = 0 \/ hist[n].st # s THEN 0 ELSE 1 + RunLength(n - 1, s)

\* C20: after every frame, state_count is the number of most recent
\* consecutive frames that resolved the observed state (so it is at least
\* 1), and the counter is reset exactly on the frames whose resolved state
\* differs from the observed state the previous frame left.
C20_CountIsRunLength ==
    \A n \in 1 .. Len(hist) :
        /\ Post(n).state = hist[n].st
        /\ Post(n).state_count = RunLength(n, Post(n).state)
        /\ Post(n).state_count >= 1
        /\ IF hist[n].st # hist[n].pre.state
           THEN Post(n).state_count = 1
           ELSE Post(n).state_count = hist[n].pre.state_count + 1

\* a run that counted past the threshold, was reset by a change of state
\* and has counted two frames of the new state since
C20_Witness ==
    /\ Len(hist) >= 6
    /\ \E i \in 1 .. Len(hist) - 2 :
          /\ hist[i].pre.state_count > STATE_COUNT_THRESHOLD
          /\ hist[i].branch = "reset"
          /\ Post(i).state_count = 1
          /\ hist[i + 1].branch = "hold"
          /\ Post(i + 1).state_count = 2

(***************************************************************************)
(* The dataset capture (Spec)                                              *)
(***************************************************************************)
\* what a frame returns when nothing is captured: the candidate, the
\* distance gate, the classifier's answer and the index's answer alone
WithoutCapture(cls, q) ==
    LET c == candidate
    IN  IF c.raised
        THEN [ raised |-> TRUE, light_wp |-> -1, st |-> UNKNOWN ]
        ELSE IF c.closest_light = None \/ ~in_range(c.light_distance)
        THEN [ raised |-> FALSE, light_wp |-> -1, st |-> UNKNOWN ]
        ELSE IF waypoint_tree = None
        THEN [ raised |-> TRUE, light_wp |-> -1, st |-> UNKNOWN ]
        ELSE [ raised |-> FALSE, light_wp |-> q, st |-> cls ]

\* C15: the capture has no effect on the published output. The result of
\* every frame is the one without capture for the classifier's answer and
\* the index's answer of that frame, whatever the capture timer said and
\* whatever was written, and the candidate and its distance are the loop's;
\* after the frame the debounce fields and the published value are the
\* debounce of that result, and a frame that raised left the debounce
\* fields as they were.
C15_CaptureHasNoEffect ==
    frame.kind = "frame"
        => LET e == WithoutCapture(frame.cls, frame.light_wp)
               d == debounce(frame.pre.state, frame.pre.state_count,
                             frame.pre.last_state, frame.pre.last_wp,
                             frame.light_wp, frame.st)
           IN  /\ frame.raised = e.raised
               /\ frame.light_wp = e.light_wp
               /\ frame.st = e.st
               /\ frame.light_wp \in query_answers
               /\ frame.stop_line_idx = candidate.stop_line_idx
               /\ frame.light_distance = candidate.light_distance
               /\ IF frame.raised
                  THEN debounce_state = frame.pre /\ frame.pub = << >>
                  ELSE /\ state = d.state
                       /\ state_count = d.state_count
                       /\ last_state = d.last_state
                       /\ last_wp = d.last_wp
                       /\ frame.pub = d.pub

\* a frame that captured the candidate's label (RED) while the classifier
\* answered GREEN: the published value is the debounce's, -1
C15_Witness ==
    /\ frame.kind = "frame"
    /\ RED \in dataset_file
    /\ frame.classified
    /\ frame.cls = GREEN
    /\ frame.st = GREEN
    /\ frame.light_wp >= 0
    /\ frame.branch = "commit"
    /\ frame.pub = << -1 >>

\* a candidate farther than IMAGE_CAPTURE_DISTANCE: nothing is captured
C15_Witness_TooFar ==
    /\ frame.kind = "frame"
    /\ frame.stop_line_idx >= 0
    /\ frame.light_distance > Sq(IMAGE_CAPTURE_DISTANCE)
    /\ dataset_file = {}
    /\ frame.branch = "commit"

C12_NoImageNeverPublishesIndex ==
    (\A i \in 1 .. Len(hist) : ~hist[i].classified)
        => \A i \in 1 .. Len(hist) : OnlyMinusOne(i)

\* with has_image False the returned False is taken for RED: the fourth
\* such frame commits RED and publishes the stop line's waypoint index
C12_FalseCommitsRed ==
    /\ has_image = "False"
    /\ frame.kind = "frame"
    /\ ~frame.classified
    /\ frame.st = RED
    /\ frame.branch = "commit"
    /\ frame.pub = << frame.light_wp >>
    /\ frame.light_wp >= 0
    /\ Len(hist) = STATE_COUNT_THRESHOLD + 1

(***************************************************************************)
(* Callbacks at once (SpecConcurrent)                                      *)
(***************************************************************************)
\* C14: a frame never observes a half-applied pose update: no frame runs
\* between the two assignments of pose_cb, when previous_pose has been
\* overwritten with the old pose and pose has not yet been written.
C14_NoHalfAppliedPose == frame.kind = "frame" => pose_pending = None

\* what the half-applied update does to a frame: the red light at (5,0) is
\* ahead before the update (0,0) -> (1,0) and after it, yet the frame
\* between the two assignments sees pose = previous_pose and selects nothing
C14_HalfAppliedHidesLight ==
    /\ frame.kind = "frame"
    /\ pose_pending = Some(<<1, 0>>)
    /\ pose = Some(<<1, 0>>)
    /\ previous_pose = pose
    /\ lights # << >>
    /\ NoCandidate(frame)

(***************************************************************************)
(* Callbacks during construction (SpecConstruction)                        *)
(***************************************************************************)
\* C18: no frame is processed before the constructor has assigned config,
\* the classifier and the debounce fields.
C18_NoFrameBeforeConstructed == frame.kind = "frame" => constructed

\* the frame delivered during construction raises and publishes nothing
C18_EarlyFrameRaises ==
    /\ ~constructed
    /\ frame.kind = "frame"
    /\ frame.raised
    /\ config = None
    /\ has_image = "True"

====
